---- MODULE Spec2Model ----
(***************************************************************************)
(* Doc-Summarizer backend (src/backend/server.js, later revision, lines    *)
(* 203-372): one POST /api/upload request from multer intake to the        *)
(* response, with the stored file on disk, the extraction call, the three  *)
(* concurrent generateSummary calls and the cleanup of the stored file.    *)
(*                                                                         *)
(* Strings the code inspects character by character (mimetype, file name,  *)
(* extracted text) are sequences of one-character strings; strings it only *)
(* copies or concatenates (messages, summaries) are TLA+ strings.          *)
(***************************************************************************)
EXTENDS Integers, Sequences, FiniteSets, TLC

\* ------------------------------------------------------------------ bounds
\* Longest of the short non-blank extracted texts.
ShortTextLen == 1
\* How far beyond the preview limit the longest extracted text reaches.
OverLen == 1
\* Number of different unique suffixes storage.filename can draw.
NumSuffixes == 2

\* ------------------------------------------------------- string primitives
Upper == <<"A","B","C","D","E","F","G","H","I","J","K","L","M",
           "N","O","P","Q","R","S","T","U","V","W","X","Y","Z">>
Lower == <<"a","b","c","d","e","f","g","h","i","j","k","l","m",
           "n","o","p","q","r","s","t","u","v","w","x","y","z">>

\* String.prototype.toLowerCase on one character.
LowerChar(c) ==
    IF \E i \in 1..26 : Upper[i] = c
    THEN Lower[CHOOSE i \in 1..26 : Upper[i] = c]
    ELSE c

\* String.prototype.toLowerCase.
toLowerCase(s) == [i \in 1..Len(s) |-> LowerChar(s[i])]

\* Whether pattern p occurs somewhere in s (an unanchored literal match).
Contains(s, p) ==
    \E i \in 1..(Len(s) - Len(p) + 1) : SubSeq(s, i, i + Len(p) - 1) = p

\* The alternatives of the regular expression /jpeg|jpg|png|pdf/.
allowedTypes ==
    { <<"j","p","e","g">>, <<"j","p","g">>, <<"p","n","g">>, <<"p","d","f">> }

\* allowedTypes.test(s): the expression is not anchored, so it matches any
\* string that contains one of the alternatives.
allowedTypesTest(s) == \E p \in allowedTypes : Contains(s, p)

\* Position of the last "." of s, 0 when there is none.
LastDot(s) ==
    IF \E i \in 1..Len(s) : s[i] = "."
    THEN CHOOSE i \in 1..Len(s) :
            /\ s[i] = "."
            /\ \A j \in (i+1)..Len(s) : s[j] # "."
    ELSE 0

\* path.extname on a name without directory separators (multer hands the
\* handler the bare file name): from the last "." to the end; empty when
\* there is no ".", when the only "." is the first character, or for "..".
extname(s) ==
    LET d == LastDot(s) IN
    IF d = 0 \/ d = 1 \/ s = <<".", ".">>
    THEN << >>
    ELSE SubSeq(s, d, Len(s))

\* Characters String.prototype.trim removes (those the model's texts use).
WhiteSpace == {" ", "\n", "\t"}

RECURSIVE TrimLeft(_)
TrimLeft(s) ==
    IF s # << >> /\ Head(s) \in WhiteSpace THEN TrimLeft(Tail(s)) ELSE s

RECURSIVE TrimRight(_)
TrimRight(s) ==
    IF s # << >> /\ s[Len(s)] \in WhiteSpace
    THEN TrimRight(SubSeq(s, 1, Len(s) - 1))
    ELSE s

\* A trim that removes nothing.
trimNothing(s) == s

\* String.prototype.trim.
trim(s) == TrimRight(TrimLeft(s))

\* ----------------------------------------------------------------- inputs
\* Declared media types a client may send.
MimeTypes ==
    { <<"a","p","p","l","i","c","a","t","i","o","n","/","p","d","f">>,
      <<"i","m","a","g","e","/","j","p","e","g">>,
      <<"i","m","a","g","e","/","p","n","g">>,
      <<"v","i","d","e","o","/","j","p","e","g">>,
      <<"t","e","x","t","/","p","l","a","i","n">> }

\* The three media types the interface names.
DeclaredPDF  == <<"a","p","p","l","i","c","a","t","i","o","n","/","p","d","f">>
DeclaredJPEG == <<"i","m","a","g","e","/","j","p","e","g">>
DeclaredPNG  == <<"i","m","a","g","e","/","p","n","g">>

\* Original file names a client may send.
FileNames ==
    { <<"a",".","p","d","f">>,
      <<"a",".","P","D","F">>,
      <<"a",".","p","n","g">>,
      <<"a",".","j","p","g">>,
      <<"a",".","j","p","e","g">>,
      <<"a",".","p","d","f","x">>,
      <<"a",".","t","x","t">>,
      <<".","p","d","f">> }

\* limits.fileSize of the multer configuration.
fileSizeLimit == 10 * 1024 * 1024

\* Byte sizes of the uploaded part: small, exactly the limit, one above it.
FileSizes == {1, fileSizeLimit, fileSizeLimit + 1}

\* What a multipart request may carry in its "document" field.
Uploads ==
    [present : {TRUE}, mimetype : MimeTypes, originalname : FileNames,
     size : FileSizes]

NoUpload ==
    [present |-> FALSE, mimetype |-> << >>, originalname |-> << >>, size |-> 0]

\* The preview keeps this many characters (substring(0, 1000)).
previewLimit == 1000

Fill(n) == [i \in 1..n |-> "x"]

\* Texts an extractor may return: empty, whitespace only, short, padded
\* with whitespace, exactly at the preview limit and beyond it.
Texts ==
    { << >>, <<" ", "\n">> }
    \cup { Fill(n) : n \in 1..ShortTextLen }
    \cup { <<" ">> \o Fill(ShortTextLen) \o <<"\n">> }
    \cup { Fill(previewLimit + k) : k \in 0..OverLen }

\* The three length classes, in the order the handler issues the calls.
Lengths == <<"short", "medium", "long">>
LengthSet == {"short", "medium", "long"}

\* What the generative service does with one generateContent call: it
\* returns a text, or the call fails (network, quota, malformed response).
FailureKinds == {"network", "quota", "malformed"}
ServiceTexts == {"Generated summary."}
ServiceOutcomes ==
    [kind : {"ok"}, text : ServiceTexts] \cup [kind : FailureKinds, text : {""}]

\* Message of the error the service call raises for each failure kind.
ServiceErrorMessage(kind) ==
    CASE kind = "network"   -> "fetch failed"
      [] kind = "quota"     -> "429 Too Many Requests: API limit exceeded"
      [] kind = "malformed" -> "Cannot read properties of undefined"
      [] OTHER              -> ""

\* Messages of the errors fs raises.
ENOENT == "ENOENT: no such file or directory"
EPERM  == "EPERM: operation not permitted"

\* --------------------------------------------------------- pure functions
\* The prompt generateSummary builds: the template chosen by the switch on
\* length, followed by the text.
SummaryPrompt(text, length) ==
    [ template |->
        CASE length = "short"  -> "Summarize in 2-3 sentences:"
          [] length = "medium" -> "Summarize in 1-2 paragraphs:"
          [] length = "long"   -> "Summarize in 3-4 paragraphs:"
          [] OTHER             -> "Summarize this text:",
      text |-> text ]

\* The string generateSummary returns from its catch block.
FallbackSummary == "AI service is currently unavailable. Please try again later."

\* The body of generateSummary's try block against a service call with the
\* given outcome: kind "return" is a value, kind "throw" a raised error.
generateSummaryTry(text, length, outcome) ==
    IF outcome.kind = "ok"
    THEN [kind |-> "return", value |-> outcome.text,
          prompt |-> SummaryPrompt(text, length)]
    ELSE [kind |-> "throw", value |-> ServiceErrorMessage(outcome.kind),
          prompt |-> SummaryPrompt(text, length)]

\* generateSummary with a catch block that raises again instead of returning
\* the fallback string.
generateSummaryRethrows(text, length, outcome) ==
    LET r == generateSummaryTry(text, length, outcome) IN
    IF r.kind = "throw"
    THEN [kind |-> "throw", value |-> "Failed to generate summary: " \o r.value,
          prompt |-> r.prompt]
    ELSE r

\* generateSummary(text, length): how the async function settles.  Its catch
\* block turns every error raised in the try block into the fallback string.
generateSummary(text, length, outcome) ==
    LET r == generateSummaryTry(text, length, outcome) IN
    IF r.kind = "throw"
    THEN [kind |-> "return", value |-> FallbackSummary, prompt |-> r.prompt]
    ELSE r

\* A preview that appends the marker already at the limit (>= for >).
originalTextMarkedAtLimit(text) ==
    SubSeq(text, 1, IF Len(text) < previewLimit THEN Len(text) ELSE previewLimit)
    \o (IF Len(text) >= previewLimit THEN <<".", ".", ".">> ELSE << >>)

\* A preview that keeps one character too many.
originalTextOneTooMany(text) ==
    SubSeq(text, 1, IF Len(text) < previewLimit + 1 THEN Len(text)
                    ELSE previewLimit + 1)
    \o (IF Len(text) > previewLimit THEN <<".", ".", ".">> ELSE << >>)

\* originalText of the success response.
originalTextOf(text) ==
    SubSeq(text, 1, IF Len(text) < previewLimit THEN Len(text) ELSE previewLimit)
    \o (IF Len(text) > previewLimit THEN <<".", ".", ".">> ELSE << >>)

\* The file filter of the multer configuration.
fileFilter(file) ==
    LET extnameOk == allowedTypesTest(toLowerCase(extname(file.originalname)))
        mimetypeOk == allowedTypesTest(file.mimetype)
    IN  mimetypeOk /\ extnameOk

\* ext of the handler.
ExtOf(file) == toLowerCase(extname(file.originalname))

PdfExt == <<".","p","d","f">>
ImageExts == { <<".","j","p","g">>, <<".","j","p","e","g">>, <<".","p","n","g">> }

\* ------------------------------------------------------------------ state
VARIABLES
    upload,         \* the "document" part of the request (or NoUpload)
    pc,             \* where the request is
    reqFile,        \* whether multer set req.file
    fsExists,       \* whether the stored file exists at req.file.path
    extractor,      \* which extractor the handler invoked: none, pdf, image
    extractedText,  \* extractedText of the handler
    sumState,       \* per length: idle, pending, fulfilled, rejected
    sumValue,       \* per length: the value its promise settled with
    sumOutcome,     \* per length: what the service did with the call
    calls,          \* prompts handed to model.generateContent, in order
    err,            \* the error being propagated
    caught,         \* the error bound by the handler's catch block
    responses,      \* responses emitted for the request, in order
    unlinkCalls,    \* number of fs.unlinkSync calls of the handler
    cleanupLog,     \* errors fs.unlinkSync raised in the handler, in order
    removedBy,      \* who removed the stored file: nobody, handler, multer, external
    extractState,   \* the extractor call: idle, pending, fulfilled, rejected
    extractLog,     \* extractor invocations of the handler, in order
    conc,           \* two concurrent requests sharing uploads/ (SpecConc)
    reqBody,        \* req.body: the text fields of the multipart request
    ui              \* the state of the frontend's App component (SpecUi)

vars == <<upload, pc, reqFile, fsExists, extractor, extractedText, sumState,
          sumValue, sumOutcome, calls, err, caught, responses,
          unlinkCalls, cleanupLog, removedBy, extractState, extractLog,
          conc, reqBody, ui>>

\* The two-request state while a single request is being followed.
ConcIdle == [active |-> FALSE]

\* The frontend's state while a request is followed on the backend.
UiIdle == [active |-> FALSE]

Undefined == "<undefined>"
NoError == [type |-> "none", code |-> "", message |-> ""]
MkError(msg) == [type |-> "Error", code |-> "", message |-> msg]
NoOutcome == [kind |-> "none", text |-> ""]

\* A request body without a summaryLength field: what the frontend sends
\* (its FormData holds the document only).
NoBody == [summaryLength |-> Undefined]

\* Request bodies a client may send.
Bodies == [summaryLength : {Undefined, "short", "detailed"}]

\* const { summaryLength = 'medium' } = req.body
summaryLength ==
    IF reqBody.summaryLength = Undefined THEN "medium"
    ELSE reqBody.summaryLength

Init ==
    /\ upload \in Uploads \cup {NoUpload}
    /\ pc = "received"
    /\ reqFile = FALSE
    /\ fsExists = FALSE
    /\ extractor = "none"
    /\ extractedText = << >>
    /\ sumState = [l \in LengthSet |-> "idle"]
    /\ sumValue = [l \in LengthSet |-> Undefined]
    /\ sumOutcome = [l \in LengthSet |-> NoOutcome]
    /\ calls = << >>
    /\ err = NoError
    /\ caught = NoError
    /\ responses = << >>
    /\ unlinkCalls = 0
    /\ cleanupLog = << >>
    /\ removedBy = "nobody"
    /\ extractState = "idle"
    /\ extractLog = << >>
    /\ conc = ConcIdle
    /\ reqBody = NoBody
    /\ ui = UiIdle

\* res.status(status).json(body) / res.json(body).
Respond(status, body) ==
    responses' = Append(responses, [status |-> status, body |-> body])

\* ----------------------------------------------------------- multer intake
\* upload.single('document') on a request without a file part: req.file
\* stays undefined and the handler runs.
MulterNoFile ==
    /\ pc = "received"
    /\ ~upload.present
    /\ pc' = "handler"
    /\ UNCHANGED <<upload, reqFile, fsExists, extractor, extractedText,
                   sumState, sumValue, sumOutcome, calls, err, caught,
                   responses, unlinkCalls, cleanupLog, removedBy,
                   extractState, extractLog, conc, reqBody, ui>>

\* fileFilter accepts the part: the disk storage starts writing the file.
MulterAccept ==
    /\ pc = "received"
    /\ upload.present
    /\ fileFilter(upload)
    /\ fsExists' = TRUE
    /\ pc' = "storing"
    /\ UNCHANGED <<upload, reqFile, extractor, extractedText, sumState,
                   sumValue, sumOutcome, calls, err, caught, responses,
                   unlinkCalls, cleanupLog, removedBy,
                   extractState, extractLog, conc, reqBody, ui>>

\* fileFilter rejects the part: nothing is stored, the error goes to the
\* error handling middleware.
MulterReject ==
    /\ pc = "received"
    /\ upload.present
    /\ ~fileFilter(upload)
    /\ err' = MkError("Only PDF and image files are allowed")
    /\ pc' = "errorHandler"
    /\ UNCHANGED <<upload, reqFile, fsExists, extractor, extractedText,
                   sumState, sumValue, sumOutcome, calls, caught, responses,
                   unlinkCalls, cleanupLog, removedBy,
                   extractState, extractLog, conc, reqBody, ui>>

\* The part fits limits.fileSize: req.file is set and the handler runs.
MulterStored ==
    /\ pc = "storing"
    /\ upload.size <= fileSizeLimit
    /\ reqFile' = TRUE
    /\ pc' = "handler"
    /\ UNCHANGED <<upload, fsExists, extractor, extractedText, sumState,
                   sumValue, sumOutcome, calls, err, caught, responses,
                   unlinkCalls, cleanupLog, removedBy,
                   extractState, extractLog, conc, reqBody, ui>>

\* The part exceeds limits.fileSize: multer removes what it wrote and raises
\* MulterError LIMIT_FILE_SIZE.
MulterLimit ==
    /\ pc = "storing"
    /\ upload.size > fileSizeLimit
    /\ fsExists' = FALSE
    /\ removedBy' = "multer"
    /\ err' = [type |-> "MulterError", code |-> "LIMIT_FILE_SIZE",
               message |-> "File too large"]
    /\ pc' = "errorHandler"
    /\ UNCHANGED <<upload, reqFile, extractor, extractedText, sumState,
                   sumValue, sumOutcome, calls, caught, responses,
                   unlinkCalls, cleanupLog,
                   extractState, extractLog, conc, reqBody, ui>>

\* The error handling middleware.
ErrorHandler ==
    /\ pc = "errorHandler"
    /\ IF err.type = "MulterError" /\ err.code = "LIMIT_FILE_SIZE"
       THEN Respond(400, [error |-> "File too large. Max size is 10MB."])
       ELSE Respond(500, [error |-> err.message])
    /\ pc' = "done"
    /\ UNCHANGED <<upload, reqFile, fsExists, extractor, extractedText,
                   sumState, sumValue, sumOutcome, calls, err, caught,
                   unlinkCalls, cleanupLog, removedBy,
                   extractState, extractLog, conc, reqBody, ui>>

\* ------------------------------------------------------------ the handler
\* A dispatch that looks at the declared media type instead of ext.
DispatchByMimetype(file) ==
    IF file.mimetype = DeclaredPDF THEN "pdf"
    ELSE IF file.mimetype \in {DeclaredJPEG, DeclaredPNG} THEN "image"
    ELSE "unsupported"

\* The branch of the handler's if / else if / else on ext.
Dispatch(file) ==
    IF ExtOf(file) = PdfExt THEN "pdf"
    ELSE IF ExtOf(file) \in ImageExts THEN "image"
    ELSE "unsupported"

\* A handler that sends a request without a file through the cleanup of the
\* failure path before answering it.
HandlerNoFileCleansUp ==
    /\ pc = "handler"
    /\ ~reqFile
    /\ unlinkCalls' = unlinkCalls + 1
    /\ Respond(500, [error |-> "Failed to process document: No file uploaded"])
    /\ pc' = "done"
    /\ UNCHANGED <<upload, reqFile, fsExists, extractor, extractedText,
                   sumState, sumValue, sumOutcome, calls, err, caught,
                   cleanupLog, removedBy,
                   extractState, extractLog, conc, reqBody, ui>>

\* if (!req.file) return res.status(400).json(...)
HandlerNoFile ==
    /\ pc = "handler"
    /\ ~reqFile
    /\ Respond(400, [error |-> "No file uploaded"])
    /\ pc' = "done"
    /\ UNCHANGED <<upload, reqFile, fsExists, extractor, extractedText,
                   sumState, sumValue, sumOutcome, calls, err, caught,
                   unlinkCalls, cleanupLog, removedBy,
                   extractState, extractLog, conc, reqBody, ui>>

\* ext === '.pdf': extractTextFromPDF is called.  Its fs.readFileSync runs at
\* once and raises when the stored file is gone; otherwise pdfParse is
\* awaited.
DispatchPDF ==
    /\ pc = "handler"
    /\ reqFile
    /\ Dispatch(upload) = "pdf"
    /\ extractor' = "pdf"
    /\ IF fsExists
       THEN pc' = "extracting" /\ err' = err
       ELSE pc' = "catch" /\ err' = MkError(ENOENT)
    /\ UNCHANGED <<upload, reqFile, fsExists, extractedText, sumState,
                   sumValue, sumOutcome, calls, caught, responses,
                   unlinkCalls, cleanupLog, removedBy,
                   conc, reqBody, ui>>
    /\ extractLog' = Append(extractLog, "pdf")
    /\ extractState' = IF fsExists THEN "pending" ELSE "rejected"

\* A dispatch that starts the three summarization calls together with the
\* OCR call, on the text it has so far.
DispatchImageSpeculative ==
    /\ pc = "handler"
    /\ reqFile
    /\ Dispatch(upload) = "image"
    /\ extractor' = "image"
    /\ pc' = "extracting"
    /\ extractLog' = Append(extractLog, "image")
    /\ extractState' = "pending"
    /\ sumState' = [l \in LengthSet |-> "pending"]
    /\ calls' = calls \o
          [i \in 1..3 |-> SummaryPrompt(extractedText, Lengths[i])]
    /\ UNCHANGED <<upload, reqFile, fsExists, extractedText, sumValue,
                   sumOutcome, err, caught, responses, unlinkCalls,
                   cleanupLog, removedBy, conc, reqBody, ui>>

\* ext is .jpg, .jpeg or .png: extractTextFromImage is called and
\* Tesseract.recognize is awaited.
DispatchImage ==
    /\ pc = "handler"
    /\ reqFile
    /\ Dispatch(upload) = "image"
    /\ extractor' = "image"
    /\ pc' = "extracting"
    /\ UNCHANGED <<upload, reqFile, fsExists, extractedText, sumState,
                   sumValue, sumOutcome, calls, err, caught, responses,
                   unlinkCalls, cleanupLog, removedBy,
                   conc, reqBody, ui>>
    /\ extractLog' = Append(extractLog, "image")
    /\ extractState' = "pending"

\* else return res.status(400).json({ error: 'Unsupported file type' })
DispatchUnsupported ==
    /\ pc = "handler"
    /\ reqFile
    /\ Dispatch(upload) = "unsupported"
    /\ Respond(400, [error |-> "Unsupported file type"])
    /\ pc' = "done"
    /\ UNCHANGED <<upload, reqFile, fsExists, extractor, extractedText,
                   sumState, sumValue, sumOutcome, calls, err, caught,
                   unlinkCalls, cleanupLog, removedBy,
                   extractState, extractLog, conc, reqBody, ui>>

\* Causes with which the invoked extractor may fail.
ExtractionCause(which) ==
    IF which = "pdf" THEN "Invalid PDF structure"
    ELSE "Error attempting to read image"

\* A handler that asks for the requested length in each of the three calls.
ExtractFulfilRequestedLength ==
    /\ pc = "extracting"
    /\ \E text \in Texts :
        /\ extractedText' = text
        /\ IF trim(text) = << >>
           THEN /\ Respond(400, [error |->
                        "No text could be extracted from the document"])
                /\ pc' = "done"
                /\ UNCHANGED <<sumState, calls>>
           ELSE /\ sumState' = [l \in LengthSet |-> "pending"]
                /\ calls' = calls \o
                      [i \in 1..3 |-> SummaryPrompt(text, summaryLength)]
                /\ pc' = "summarizing"
                /\ UNCHANGED responses
    /\ extractState' = "fulfilled"
    /\ UNCHANGED <<upload, reqFile, fsExists, extractor, sumValue,
                   sumOutcome, err, caught, unlinkCalls, cleanupLog,
                   removedBy, extractLog, conc, reqBody, ui>>

\* The extractor returns a text.  Blank text ends the request with a 400;
\* otherwise the three generateSummary calls are started, each running up to
\* its await of model.generateContent.
ExtractFulfil ==
    /\ pc = "extracting"
    /\ \E text \in Texts :
        /\ extractedText' = text
        /\ IF trim(text) = << >>
           THEN /\ Respond(400, [error |->
                        "No text could be extracted from the document"])
                /\ pc' = "done"
                /\ UNCHANGED <<sumState, calls>>
           ELSE /\ sumState' = [l \in LengthSet |-> "pending"]
                /\ calls' = calls \o
                      [i \in 1..3 |-> SummaryPrompt(text, Lengths[i])]
                /\ pc' = "summarizing"
                /\ UNCHANGED responses
    /\ UNCHANGED <<upload, reqFile, fsExists, extractor, sumValue,
                   sumOutcome, err, caught, unlinkCalls, cleanupLog,
                   removedBy,
                   conc, reqBody, ui>>
    /\ extractState' = "fulfilled"
    /\ UNCHANGED extractLog

\* Causes with which the invoked extractor may fail: its library's own error,
\* or the file system's error when the stored file is gone (pdf's
\* readFileSync is modelled in DispatchPDF; Tesseract reads the path itself).
ExtractionCauses(which) ==
    {ExtractionCause(which)} \cup
    (IF which = "image" /\ ~fsExists THEN {ENOENT} ELSE {})

\* A failed extraction that sends the handler back to the dispatch once.
ExtractRejectRetries ==
    /\ pc = "extracting"
    /\ \E cause \in ExtractionCauses(extractor) : err' = MkError(cause)
    /\ pc' = IF Len(extractLog) < 2 THEN "handler" ELSE "catch"
    /\ UNCHANGED <<upload, reqFile, fsExists, extractor, extractedText,
                   sumState, sumValue, sumOutcome, calls, caught, responses,
                   unlinkCalls, cleanupLog, removedBy,
                   conc, reqBody, ui>>
    /\ extractState' = "rejected"
    /\ UNCHANGED extractLog

\* The extractor fails: the await raises into the handler's try block.
ExtractReject ==
    /\ pc = "extracting"
    /\ \E cause \in ExtractionCauses(extractor) : err' = MkError(cause)
    /\ pc' = "catch"
    /\ UNCHANGED <<upload, reqFile, fsExists, extractor, extractedText,
                   sumState, sumValue, sumOutcome, calls, caught, responses,
                   unlinkCalls, cleanupLog, removedBy,
                   conc, reqBody, ui>>
    /\ extractState' = "rejected"
    /\ UNCHANGED extractLog

\* A generateSummary that issues its service call once more after a failure.
SummarySettleRetries(l) ==
    /\ sumState[l] = "pending"
    /\ \E o \in ServiceOutcomes :
        LET r == generateSummary(extractedText, l, o) IN
        /\ sumOutcome' = [sumOutcome EXCEPT ![l] = o]
        /\ IF o.kind \in FailureKinds /\ Len(calls) < 4
           THEN /\ calls' = Append(calls, r.prompt)
                /\ UNCHANGED <<sumState, sumValue>>
           ELSE /\ sumState' = [sumState EXCEPT ![l] = "fulfilled"]
                /\ sumValue' = [sumValue EXCEPT ![l] = r.value]
                /\ UNCHANGED calls
    /\ UNCHANGED <<upload, pc, err, reqFile, fsExists, extractor,
                   extractedText, caught, responses, unlinkCalls, cleanupLog,
                   removedBy, extractState, extractLog, conc, reqBody, ui>>

\* One generateSummary call settles.  A rejected call rejects Promise.all at
\* once, which raises into the handler's try block if it is still waiting.
SummarySettle(l) ==
    /\ sumState[l] = "pending"
    /\ \E o \in ServiceOutcomes :
        LET r == generateSummary(extractedText, l, o) IN
        /\ sumOutcome' = [sumOutcome EXCEPT ![l] = o]
        /\ IF r.kind = "return"
           THEN /\ sumState' = [sumState EXCEPT ![l] = "fulfilled"]
                /\ sumValue' = [sumValue EXCEPT ![l] = r.value]
                /\ UNCHANGED <<pc, err>>
           ELSE /\ sumState' = [sumState EXCEPT ![l] = "rejected"]
                /\ UNCHANGED sumValue
                /\ IF pc = "summarizing"
                   THEN pc' = "catch" /\ err' = MkError(r.value)
                   ELSE UNCHANGED <<pc, err>>
    /\ UNCHANGED <<upload, reqFile, fsExists, extractor, extractedText,
                   calls, caught, responses, unlinkCalls, cleanupLog,
                   removedBy,
                   extractState, extractLog, conc, reqBody, ui>>

\* A join that is over as soon as one of the three promises is fulfilled.
PromiseAnyFulfilled == \E l \in LengthSet : sumState[l] = "fulfilled"

\* Promise.all([...]) is fulfilled: every one of the three promises is.
PromiseAllFulfilled == \A l \in LengthSet : sumState[l] = "fulfilled"

\* The array Promise.all is fulfilled with, in call order.
PromiseAllValue == [i \in 1..3 |-> sumValue[Lengths[i]]]

\* A success body whose summaries lack the long entry.
SuccessBodyWithoutLong ==
    [ success      |-> TRUE,
      originalText |-> originalTextOf(extractedText),
      summaries    |-> [short  |-> PromiseAllValue[1],
                        medium |-> PromiseAllValue[2]],
      fileName     |-> upload.originalname,
      fileSize     |-> upload.size ]

\* A success body that reports the name of the stored file (req.file.filename)
\* in place of the name the client gave.
SuccessBodyStoredName ==
    [ success      |-> TRUE,
      originalText |-> originalTextOf(extractedText),
      summaries    |-> [short  |-> PromiseAllValue[1],
                        medium |-> PromiseAllValue[2],
                        long   |-> PromiseAllValue[3]],
      fileName     |-> <<"d","o","c","u","m","e","n","t","-","1">>
                          \o extname(upload.originalname),
      fileSize     |-> upload.size ]

\* The body of the success response.
SuccessBody ==
    LET shortSummary  == PromiseAllValue[1]
        mediumSummary == PromiseAllValue[2]
        longSummary   == PromiseAllValue[3]
    IN  [ success      |-> TRUE,
          originalText |-> originalTextOf(extractedText),
          summaries    |-> [short  |-> shortSummary,
                            medium |-> mediumSummary,
                            long   |-> longSummary],
          fileName     |-> upload.originalname,
          fileSize     |-> upload.size ]

\* await Promise.all returns; fs.existsSync(filePath) is evaluated.  When the
\* file is absent the success response follows at once.
Join ==
    /\ pc = "summarizing"
    /\ PromiseAllFulfilled
    /\ IF fsExists
       THEN pc' = "cleanup" /\ UNCHANGED responses
       ELSE pc' = "done" /\ Respond(200, SuccessBody)
    /\ UNCHANGED <<upload, reqFile, fsExists, extractor, extractedText,
                   sumState, sumValue, sumOutcome, calls, err, caught,
                   unlinkCalls, cleanupLog, removedBy,
                   extractState, extractLog, conc, reqBody, ui>>

\* fs.unlinkSync(filePath) of the success path removes the file; the success
\* response follows.
CleanupUnlink ==
    /\ pc = "cleanup"
    /\ fsExists
    /\ unlinkCalls' = unlinkCalls + 1
    /\ fsExists' = FALSE
    /\ removedBy' = "handler"
    /\ Respond(200, SuccessBody)
    /\ pc' = "done"
    /\ UNCHANGED <<upload, reqFile, extractor, extractedText, sumState,
                   sumValue, sumOutcome, calls, err, caught, cleanupLog,
                   extractState, extractLog, conc, reqBody, ui>>

\* fs.unlinkSync(filePath) of the success path raises: the file went away
\* after existsSync (ENOENT), or the file system refuses (EPERM).  The error
\* is raised inside the try block.
CleanupUnlinkFails ==
    /\ pc = "cleanup"
    /\ unlinkCalls' = unlinkCalls + 1
    /\ err' = MkError(IF fsExists THEN EPERM ELSE ENOENT)
    /\ cleanupLog' = Append(cleanupLog, err'.message)
    /\ pc' = "catch"
    /\ UNCHANGED <<upload, reqFile, fsExists, extractor, extractedText,
                   sumState, sumValue, sumOutcome, calls, caught, responses,
                   removedBy,
                   extractState, extractLog, conc, reqBody, ui>>

\* The body of the catch block's response.
FailureBody(error) ==
    [error |-> "Failed to process document: " \o error.message]

\* catch (error): req.file && fs.existsSync(req.file.path) is evaluated.  When
\* it is false the 500 response follows at once.
CatchBlock ==
    /\ pc = "catch"
    /\ caught' = err
    /\ IF reqFile /\ fsExists
       THEN pc' = "catchCleanup" /\ UNCHANGED responses
       ELSE pc' = "done" /\ Respond(500, FailureBody(err))
    /\ UNCHANGED <<upload, reqFile, fsExists, extractor, extractedText,
                   sumState, sumValue, sumOutcome, calls, err, unlinkCalls,
                   cleanupLog, removedBy,
                   extractState, extractLog, conc, reqBody, ui>>

\* fs.unlinkSync(req.file.path) of the catch block removes the file; the 500
\* response follows.
CatchUnlink ==
    /\ pc = "catchCleanup"
    /\ fsExists
    /\ unlinkCalls' = unlinkCalls + 1
    /\ fsExists' = FALSE
    /\ removedBy' = "handler"
    /\ Respond(500, FailureBody(caught))
    /\ pc' = "done"
    /\ UNCHANGED <<upload, reqFile, extractor, extractedText, sumState,
                   sumValue, sumOutcome, calls, err, caught, cleanupLog,
                   extractState, extractLog, conc, reqBody, ui>>

\* fs.unlinkSync(req.file.path) of the catch block raises: the error leaves
\* the catch block, so the handler's promise is rejected.
CatchUnlinkFails ==
    /\ pc = "catchCleanup"
    /\ unlinkCalls' = unlinkCalls + 1
    /\ err' = MkError(IF fsExists THEN EPERM ELSE ENOENT)
    /\ cleanupLog' = Append(cleanupLog, err'.message)
    /\ pc' = "rejected"
    /\ UNCHANGED <<upload, reqFile, fsExists, extractor, extractedText,
                   sumState, sumValue, sumOutcome, calls, caught, responses,
                   removedBy,
                   extractState, extractLog, conc, reqBody, ui>>

\* The rejected promise of the async handler under a router that ignores the
\* handler's return value: nobody answers the request.
RejectionUnhandled ==
    /\ pc = "rejected"
    /\ pc' = "unanswered"
    /\ UNCHANGED <<upload, reqFile, fsExists, extractor, extractedText,
                   sumState, sumValue, sumOutcome, calls, err, caught,
                   responses, unlinkCalls, cleanupLog, removedBy,
                   extractState, extractLog, conc, reqBody, ui>>

\* The rejected promise of the async handler under a router that forwards
\* rejections: the error goes to the error handling middleware.
RejectionForwarded ==
    /\ pc = "rejected"
    /\ pc' = "errorHandler"
    /\ UNCHANGED <<upload, reqFile, fsExists, extractor, extractedText,
                   sumState, sumValue, sumOutcome, calls, err, caught,
                   responses, unlinkCalls, cleanupLog, removedBy,
                   extractState, extractLog, conc, reqBody, ui>>

\* Something outside the handler removes the stored file while the request
\* is in flight.
ExternalRemove ==
    /\ fsExists
    /\ pc \in {"handler", "extracting", "summarizing", "cleanup", "catch",
               "catchCleanup"}
    /\ fsExists' = FALSE
    /\ removedBy' = "external"
    /\ UNCHANGED <<upload, pc, reqFile, extractor, extractedText, sumState,
                   sumValue, sumOutcome, calls, err, caught, responses,
                   unlinkCalls, cleanupLog,
                   extractState, extractLog, conc, reqBody, ui>>

Next ==
    \/ MulterNoFile \/ MulterAccept \/ MulterReject
    \/ MulterStored \/ MulterLimit \/ ErrorHandler
    \/ HandlerNoFile \/ DispatchPDF \/ DispatchImage \/ DispatchUnsupported
    \/ ExtractFulfil \/ ExtractReject
    \/ \E l \in LengthSet : SummarySettle(l)
    \/ Join \/ CleanupUnlink \/ CleanupUnlinkFails
    \/ CatchBlock \/ CatchUnlink \/ CatchUnlinkFails
    \/ RejectionUnhandled \/ RejectionForwarded
    \/ ExternalRemove

Spec == Init /\ [][Next]_vars

Terminal == pc \in {"done", "unanswered"}

\* One request whose body may carry a summaryLength field.
InitBody ==
    /\ upload \in Uploads \cup {NoUpload}
    /\ reqBody \in Bodies
    /\ pc = "received"
    /\ reqFile = FALSE
    /\ fsExists = FALSE
    /\ extractor = "none"
    /\ extractedText = << >>
    /\ sumState = [l \in LengthSet |-> "idle"]
    /\ sumValue = [l \in LengthSet |-> Undefined]
    /\ sumOutcome = [l \in LengthSet |-> NoOutcome]
    /\ calls = << >>
    /\ err = NoError
    /\ caught = NoError
    /\ responses = << >>
    /\ unlinkCalls = 0
    /\ cleanupLog = << >>
    /\ removedBy = "nobody"
    /\ extractState = "idle"
    /\ extractLog = << >>
    /\ conc = ConcIdle
    /\ ui = UiIdle

SpecBody == InitBody /\ [][Next]_vars

\* ================================================== the earlier revision
\* server.js lines 1-201: the same pipeline with extractors that wrap their
\* errors, a generateSummary that raises again, and an unguarded unlinkSync
\* on the success path.  Intake, the dispatch on the extension, the
\* empty-text check and the catch block are the same code as in the later
\* revision and are shared.

\* The prompt of the earlier generateSummary.
SummaryPromptV1(text, length) ==
    [ template |->
        CASE length = "short"  -> "Summarize in 2-3 concise sentences:"
          [] length = "medium" -> "Summarize in 1-2 paragraphs:"
          [] length = "long"   -> "Provide a comprehensive summary (3-4 paragraphs):"
          [] OTHER             -> "Summarize the following text:",
      text |-> text ]

\* The earlier generateSummary: its catch block raises a new error.
generateSummaryV1(text, length, outcome) ==
    IF outcome.kind = "ok"
    THEN [kind |-> "return", value |-> outcome.text,
          prompt |-> SummaryPromptV1(text, length)]
    ELSE [kind |-> "throw",
          value |-> "Failed to generate summary: "
                    \o ServiceErrorMessage(outcome.kind),
          prompt |-> SummaryPromptV1(text, length)]

\* The message with which the earlier extractors wrap a cause.
ExtractionErrorV1(which, cause) ==
    IF which = "pdf"
    THEN "Failed to extract text from PDF: " \o cause
    ELSE "Failed to extract text from image: " \o cause

\* fileExtension === '.pdf': the earlier extractTextFromPDF is called; the
\* error of readFileSync is wrapped by its catch block.
DispatchPDFV1 ==
    /\ pc = "handler"
    /\ reqFile
    /\ Dispatch(upload) = "pdf"
    /\ extractor' = "pdf"
    /\ extractLog' = Append(extractLog, "pdf")
    /\ IF fsExists
       THEN pc' = "extracting" /\ err' = err /\ extractState' = "pending"
       ELSE /\ pc' = "catch"
            /\ err' = MkError(ExtractionErrorV1("pdf", ENOENT))
            /\ extractState' = "rejected"
    /\ UNCHANGED <<upload, reqFile, fsExists, extractedText, sumState,
                   sumValue, sumOutcome, calls, caught, responses,
                   unlinkCalls, cleanupLog, removedBy, conc, reqBody, ui>>

\* The earlier extractor returns a text: empty-text check and fan-out.
ExtractFulfilV1 ==
    /\ pc = "extracting"
    /\ \E text \in Texts :
        /\ extractedText' = text
        /\ IF trim(text) = << >>
           THEN /\ Respond(400, [error |->
                        "No text could be extracted from the document"])
                /\ pc' = "done"
                /\ UNCHANGED <<sumState, calls>>
           ELSE /\ sumState' = [l \in LengthSet |-> "pending"]
                /\ calls' = calls \o
                      [i \in 1..3 |-> SummaryPromptV1(text, Lengths[i])]
                /\ pc' = "summarizing"
                /\ UNCHANGED responses
    /\ extractState' = "fulfilled"
    /\ UNCHANGED <<upload, reqFile, fsExists, extractor, sumValue,
                   sumOutcome, err, caught, unlinkCalls, cleanupLog,
                   removedBy, extractLog, conc, reqBody, ui>>

\* The earlier extractor fails: its catch block wraps the cause.
ExtractRejectV1 ==
    /\ pc = "extracting"
    /\ \E cause \in ExtractionCauses(extractor) :
          err' = MkError(ExtractionErrorV1(extractor, cause))
    /\ pc' = "catch"
    /\ extractState' = "rejected"
    /\ UNCHANGED <<upload, reqFile, fsExists, extractor, extractedText,
                   sumState, sumValue, sumOutcome, calls, caught, responses,
                   unlinkCalls, cleanupLog, removedBy, extractLog, conc, reqBody, ui>>

\* One earlier generateSummary call settles.  A rejected call rejects
\* Promise.all at once, which raises into the handler's try block if it is
\* still waiting; the other calls go on and settle unobserved.
SummarySettleV1(l) ==
    /\ sumState[l] = "pending"
    /\ \E o \in ServiceOutcomes :
        LET r == generateSummaryV1(extractedText, l, o) IN
        /\ sumOutcome' = [sumOutcome EXCEPT ![l] = o]
        /\ IF r.kind = "return"
           THEN /\ sumState' = [sumState EXCEPT ![l] = "fulfilled"]
                /\ sumValue' = [sumValue EXCEPT ![l] = r.value]
                /\ UNCHANGED <<pc, err>>
           ELSE /\ sumState' = [sumState EXCEPT ![l] = "rejected"]
                /\ UNCHANGED sumValue
                /\ IF pc = "summarizing"
                   THEN pc' = "catch" /\ err' = MkError(r.value)
                   ELSE UNCHANGED <<pc, err>>
    /\ UNCHANGED <<upload, reqFile, fsExists, extractor, extractedText,
                   calls, caught, responses, unlinkCalls, cleanupLog,
                   removedBy, extractState, extractLog, conc, reqBody, ui>>

\* await Promise.all returns and fs.unlinkSync(filePath) removes the file;
\* the success response follows.
JoinUnlinkV1 ==
    /\ pc = "summarizing"
    /\ PromiseAllFulfilled
    /\ fsExists
    /\ unlinkCalls' = unlinkCalls + 1
    /\ fsExists' = FALSE
    /\ removedBy' = "handler"
    /\ Respond(200, SuccessBody)
    /\ pc' = "done"
    /\ UNCHANGED <<upload, reqFile, extractor, extractedText, sumState,
                   sumValue, sumOutcome, calls, err, caught, cleanupLog,
                   extractState, extractLog, conc, reqBody, ui>>

\* await Promise.all returns and fs.unlinkSync(filePath) raises (the file is
\* gone, or the file system refuses).
JoinUnlinkFailsV1 ==
    /\ pc = "summarizing"
    /\ PromiseAllFulfilled
    /\ unlinkCalls' = unlinkCalls + 1
    /\ err' = MkError(IF fsExists THEN EPERM ELSE ENOENT)
    /\ cleanupLog' = Append(cleanupLog, err'.message)
    /\ pc' = "catch"
    /\ UNCHANGED <<upload, reqFile, fsExists, extractor, extractedText,
                   sumState, sumValue, sumOutcome, calls, caught, responses,
                   removedBy, extractState, extractLog, conc, reqBody, ui>>

\* The earlier error handling middleware.
ErrorHandlerV1 ==
    /\ pc = "errorHandler"
    /\ IF err.type = "MulterError" /\ err.code = "LIMIT_FILE_SIZE"
       THEN Respond(400, [error |-> "File size too large. Max 10MB."])
       ELSE Respond(500, [error |-> err.message])
    /\ pc' = "done"
    /\ UNCHANGED <<upload, reqFile, fsExists, extractor, extractedText,
                   sumState, sumValue, sumOutcome, calls, err, caught,
                   unlinkCalls, cleanupLog, removedBy, extractState,
                   extractLog, conc, reqBody, ui>>

NextV1 ==
    \/ MulterNoFile \/ MulterAccept \/ MulterReject
    \/ MulterStored \/ MulterLimit \/ ErrorHandlerV1
    \/ HandlerNoFile \/ DispatchPDFV1 \/ DispatchImage \/ DispatchUnsupported
    \/ ExtractFulfilV1 \/ ExtractRejectV1
    \/ \E l \in LengthSet : SummarySettleV1(l)
    \/ JoinUnlinkV1 \/ JoinUnlinkFailsV1
    \/ CatchBlock \/ CatchUnlink \/ CatchUnlinkFails
    \/ RejectionUnhandled \/ RejectionForwarded
    \/ ExternalRemove

SpecV1 == Init /\ [][NextV1]_vars

\* ================================================ two concurrent requests
\* Two requests A and B in flight at once, sharing the directory uploads/
\* that multer writes to and express.static serves.  Each request is followed
\* only as far as its stored file is concerned: stored, read by the
\* extractor, deleted, answered.

Requests == {"A", "B"}

\* The paths storage.filename can produce for the field 'document': the
\* suffix is Date.now() and a random integer, drawn anew for each file, so
\* two files of one extension may draw the same one.
Paths == 1..NumSuffixes

\* All variables of the single-request model.
singleVars == <<upload, pc, reqFile, fsExists, extractor, extractedText,
                sumState, sumValue, sumOutcome, calls, err, caught,
                responses, unlinkCalls, cleanupLog, removedBy, extractState,
                extractLog>>

ConcInit ==
    [ active  |-> TRUE,
      disk    |-> [p \in Paths |-> "none"],
      req     |-> [r \in Requests |->
                     [pc |-> "received", path |-> 0, read |-> "none",
                      response |-> "none"]],
      served  |-> {},
      deleted |-> {} ]

InitConc ==
    /\ upload = NoUpload
    /\ pc = "received"
    /\ reqFile = FALSE
    /\ fsExists = FALSE
    /\ extractor = "none"
    /\ extractedText = << >>
    /\ sumState = [l \in LengthSet |-> "idle"]
    /\ sumValue = [l \in LengthSet |-> Undefined]
    /\ sumOutcome = [l \in LengthSet |-> NoOutcome]
    /\ calls = << >>
    /\ err = NoError
    /\ caught = NoError
    /\ responses = << >>
    /\ unlinkCalls = 0
    /\ cleanupLog = << >>
    /\ removedBy = "nobody"
    /\ extractState = "idle"
    /\ extractLog = << >>
    /\ conc = ConcInit
    /\ reqBody = NoBody
    /\ ui = UiIdle

\* multer stores r's file: storage.filename draws a path and the disk storage
\* writes r's bytes there, replacing a file that is already at that path.
ConcStore(r) ==
    /\ conc.req[r].pc = "received"
    /\ \E p \in Paths :
          conc' = [conc EXCEPT !.disk[p] = r,
                               !.req[r].path = p,
                               !.req[r].pc = "stored"]
    /\ UNCHANGED <<singleVars, reqBody, ui>>

\* r's extractor reads the file at r's path: the bytes that are there now.
\* When the file is gone the extractor raises.
ConcExtract(r) ==
    /\ conc.req[r].pc = "stored"
    /\ LET found == conc.disk[conc.req[r].path] IN
       IF found = "none"
       THEN conc' = [conc EXCEPT !.req[r].pc = "catch"]
       ELSE conc' = [conc EXCEPT !.req[r].read = found,
                                 !.req[r].pc = "summarizing"]
    /\ UNCHANGED <<singleVars, reqBody, ui>>

\* r's success path: if (fs.existsSync(filePath)) fs.unlinkSync(filePath),
\* then the success response.
ConcCleanup(r) ==
    /\ conc.req[r].pc = "summarizing"
    /\ LET p == conc.req[r].path
           found == conc.disk[p]
       IN  conc' = [conc EXCEPT
                      !.disk[p] = "none",
                      !.deleted = IF found = "none" THEN @
                                  ELSE @ \cup {<<r, found>>},
                      !.req[r].response = "success",
                      !.req[r].pc = "done"]
    /\ UNCHANGED <<singleVars, reqBody, ui>>

\* r's catch block: the guarded unlinkSync, then the 500 response.
ConcCatch(r) ==
    /\ conc.req[r].pc = "catch"
    /\ LET p == conc.req[r].path
           found == conc.disk[p]
       IN  conc' = [conc EXCEPT
                      !.disk[p] = "none",
                      !.deleted = IF found = "none" THEN @
                                  ELSE @ \cup {<<r, found>>},
                      !.req[r].response = "failure",
                      !.req[r].pc = "done"]
    /\ UNCHANGED <<singleVars, reqBody, ui>>

\* express.static('uploads') answers a GET for a path under uploads/ with the
\* file that is there, whoever asks.
StaticGet(p) ==
    /\ conc.disk[p] # "none"
    /\ conc.disk[p] \notin conc.served
    /\ conc' = [conc EXCEPT !.served = @ \cup {conc.disk[p]}]
    /\ UNCHANGED <<singleVars, reqBody, ui>>

NextConc ==
    \/ \E r \in Requests : ConcStore(r)
    \/ \E r \in Requests : ConcExtract(r)
    \/ \E r \in Requests : ConcCleanup(r)
    \/ \E r \in Requests : ConcCatch(r)
    \/ \E p \in Paths : StaticGet(p)

SpecConc == InitConc /\ [][NextConc]_vars

\* ============================================================ the frontend
\* src/frontend/src/App.js: the App component.  Its state is the six useState
\* cells, and the file that the fetch in flight carries.  An event handler is
\* enabled when the element it is bound to is rendered and not disabled.

\* maxSize of validateAndSetFile.
maxSize == 10 * 1024 * 1024

\* allowedTypes of validateAndSetFile (matched with Array.prototype.includes).
allowedTypesList ==
    {"application/pdf", "image/jpeg", "image/jpg", "image/png"}

\* Files the user may drop or pick.
UiFiles ==
    [ name : {"a.pdf", "b.png"},
      type : {"application/pdf", "image/png", "text/plain"},
      size : {maxSize, maxSize + 1} ]

\* null in the file cell; files[0] of a drop that carries no file.
NoFile == [name |-> "", type |-> "", size |-> 0]

\* null in the result cell.
NoResult ==
    [success |-> FALSE, originalText |-> "", summaries |-> "",
     fileName |-> "", fileSize |-> 0]

\* The body of the backend's success response for the file that was sent.
DataFor(f) ==
    [success |-> TRUE, originalText |-> "text", summaries |-> "summaries",
     fileName |-> f.name, fileSize |-> f.size]

\* How the fetch of uploadAndProcess may end: a response with ok status and
\* the success body; a response with an error status and a JSON body whose
\* error is the given string ("" when it has none); a response whose body is
\* not JSON; a fetch that is rejected.
FetchOutcomes ==
    [kind : {"ok", "unparsable", "network"}, error : {""}]
    \cup [kind : {"error"},
          error : {"", "Failed to process document: Invalid PDF structure",
                   "API limit reached"}]

\* data.error?.includes("API limit") on the error strings above.
IncludesApiLimit(e) == e \in {"API limit reached"}

\* The message of the error that reaches the catch block of
\* uploadAndProcess.
ThrownMessage(o) ==
    CASE o.kind = "network"    -> "Failed to fetch"
      [] o.kind = "unparsable" -> "Unexpected token < in JSON at position 0"
      [] OTHER ->
           IF IncludesApiLimit(o.error)
           THEN "AI quota exceeded. Please try again later."
           ELSE IF o.error # "" THEN o.error
           ELSE "Failed to process document"

UiInit ==
    [ active            |-> TRUE,
      file              |-> NoFile,
      isDragging        |-> FALSE,
      isProcessing      |-> FALSE,
      result            |-> NoResult,
      error             |-> "",
      activeSummaryType |-> "medium",
      sent              |-> NoFile ]

InitUi ==
    /\ upload = NoUpload
    /\ pc = "received"
    /\ reqFile = FALSE
    /\ fsExists = FALSE
    /\ extractor = "none"
    /\ extractedText = << >>
    /\ sumState = [l \in LengthSet |-> "idle"]
    /\ sumValue = [l \in LengthSet |-> Undefined]
    /\ sumOutcome = [l \in LengthSet |-> NoOutcome]
    /\ calls = << >>
    /\ err = NoError
    /\ caught = NoError
    /\ responses = << >>
    /\ unlinkCalls = 0
    /\ cleanupLog = << >>
    /\ removedBy = "nobody"
    /\ extractState = "idle"
    /\ extractLog = << >>
    /\ conc = ConcIdle
    /\ reqBody = NoBody
    /\ ui = UiInit

\* The upload section is rendered (!result): the drop area with its drag
\* handlers, and inside it the file input or the file preview.
UploadSectionRendered == ui.result = NoResult

\* validateAndSetFile(file) applied to the state u.  (The messages are
\* given without their leading mark.)
validateAndSetFile(u, f) ==
    IF f.type \notin allowedTypesList
    THEN [u EXCEPT !.error = "Please select a PDF or image file (JPG, PNG)"]
    ELSE IF f.size > maxSize
    THEN [u EXCEPT !.error = "File size must be less than 10MB"]
    ELSE [u EXCEPT !.file = f, !.error = "", !.result = NoResult]

handleDragOver ==
    /\ UploadSectionRendered
    /\ ui' = [ui EXCEPT !.isDragging = TRUE]
    /\ UNCHANGED <<singleVars, conc, reqBody>>

handleDragLeave ==
    /\ UploadSectionRendered
    /\ ui' = [ui EXCEPT !.isDragging = FALSE]
    /\ UNCHANGED <<singleVars, conc, reqBody>>

\* onDrop of the drop area, which carries no disabled state.
handleDrop(f) ==
    /\ UploadSectionRendered
    /\ LET u == [ui EXCEPT !.isDragging = FALSE] IN
       ui' = IF f # NoFile THEN validateAndSetFile(u, f) ELSE u
    /\ UNCHANGED <<singleVars, conc, reqBody>>

\* onChange of the file input, rendered while no file is selected.
handleFileSelect(f) ==
    /\ UploadSectionRendered
    /\ ui.file = NoFile
    /\ ui' = IF f # NoFile THEN validateAndSetFile(ui, f) ELSE ui
    /\ UNCHANGED <<singleVars, conc, reqBody>>

\* uploadAndProcess up to its await of fetch, started by the Generate
\* Summary button (rendered with the file preview, disabled={isProcessing}).
uploadAndProcess ==
    /\ UploadSectionRendered
    /\ ui.file # NoFile
    /\ ~ui.isProcessing
    /\ ui' = [ui EXCEPT !.isProcessing = TRUE, !.error = "",
                        !.sent = ui.file]
    /\ UNCHANGED <<singleVars, conc, reqBody>>

\* The rest of uploadAndProcess, once the fetch has settled: setResult(data)
\* or the catch block's setError, then the finally block.
FetchSettle(o) ==
    /\ ui.sent # NoFile
    /\ ui' = IF o.kind = "ok"
             THEN [ui EXCEPT !.result = DataFor(ui.sent),
                             !.isProcessing = FALSE, !.sent = NoFile]
             ELSE [ui EXCEPT !.error =
                                IF ThrownMessage(o) # "" THEN ThrownMessage(o)
                                ELSE "Failed to process document. Please try again.",
                             !.isProcessing = FALSE, !.sent = NoFile]
    /\ UNCHANGED <<singleVars, conc, reqBody>>

\* resetApp: Choose Different File (with the file preview,
\* disabled={isProcessing}) or Process Another Document (results section).
resetApp ==
    /\ \/ UploadSectionRendered /\ ui.file # NoFile /\ ~ui.isProcessing
       \/ ~UploadSectionRendered
    /\ ui' = [ui EXCEPT !.file = NoFile, !.result = NoResult, !.error = "",
                        !.activeSummaryType = "medium"]
    /\ UNCHANGED <<singleVars, conc, reqBody>>

\* A tab of the results section.
setActiveSummaryType(type) ==
    /\ ~UploadSectionRendered
    /\ ui' = [ui EXCEPT !.activeSummaryType = type]
    /\ UNCHANGED <<singleVars, conc, reqBody>>

NextUi ==
    \/ handleDragOver \/ handleDragLeave
    \/ \E f \in UiFiles \cup {NoFile} : handleDrop(f)
    \/ \E f \in UiFiles \cup {NoFile} : handleFileSelect(f)
    \/ uploadAndProcess
    \/ \E o \in FetchOutcomes : FetchSettle(o)
    \/ resetApp
    \/ \E type \in LengthSet : setActiveSummaryType(type)

SpecUi == InitUi /\ [][NextUi]_vars

\* The runs in which every fetch settles.
FairnessUi == WF_vars(\E o \in FetchOutcomes : FetchSettle(o))

SpecUiLive == InitUi /\ [][NextUi]_vars /\ FairnessUi

\* ================================================================ claims
\* The request entered the summarization region and all three calls settled
\* with a value.
AllThreeFulfilled == \A l \in LengthSet : sumState[l] = "fulfilled"

\* What the claim expects in the summaries entry of a length: the fallback
\* string when the service call failed, the service's text otherwise.
ExpectedSummary(l) ==
    IF sumOutcome[l].kind \in FailureKinds
    THEN "AI service is currently unavailable. Please try again later."
    ELSE sumOutcome[l].text

\* An upload whose declared media type and file name agree: a PDF named
\* .pdf, or a JPEG or PNG named .jpg, .jpeg or .png.  The claims about the
\* handler's exit paths are stated for these uploads, so that what refutes
\* them does not rest on what intake lets through.
OrdinaryUpload ==
    LET e == toLowerCase(extname(upload.originalname)) IN
    \/ upload.mimetype = DeclaredPDF /\ e = <<".","p","d","f">>
    \/ /\ upload.mimetype \in {DeclaredJPEG, DeclaredPNG}
       /\ e \in { <<".","j","p","g">>, <<".","j","p","e","g">>,
                  <<".","p","n","g">> }

\* C1: for a request whose file was stored, the stored file no longer exists
\* once a response has been emitted, on every exit path of the handler
\* (stated for the ordinary uploads).
C1_StoredFileGoneAtResponse ==
    (OrdinaryUpload /\ reqFile /\ responses # << >>) => ~fsExists

\* C2: whichever of the three summarization calls fail, the request ends in
\* a success response in which every failed length holds the fallback string
\* and every other length the text the service returned (stated for the
\* ordinary uploads).
C2_FailedCallsStillEndInSuccess ==
    (OrdinaryUpload /\ Terminal /\ AllThreeFulfilled) =>
        /\ Len(responses) = 1
        /\ responses[1].status = 200
        /\ DOMAIN responses[1].body.summaries = LengthSet
        /\ \A l \in LengthSet :
              responses[1].body.summaries[l] = ExpectedSummary(l)

\* C3: while one of the three summarization calls of a request has not
\* settled, the handler has neither called unlink nor emitted a response.
C3_JoinIsAllCompleteBarrier ==
    (\E l \in LengthSet : sumState[l] = "pending") =>
        /\ unlinkCalls = 0
        /\ removedBy # "handler"
        /\ responses = << >>

\* C3 witness: two calls have settled, the third is pending, and the handler
\* is still waiting.
C3_Witness ==
    /\ pc = "summarizing"
    /\ sumState["short"] = "fulfilled"
    /\ sumState["medium"] = "fulfilled"
    /\ sumState["long"] = "pending"
    /\ responses = << >>

\* C4: generateSummary never raises, and for every length class and every
\* kind of failure of the service call it settles with one and the same
\* fallback string.
C4_GenerateSummaryNeverRaises ==
    \A l \in LengthSet :
        /\ sumState[l] # "rejected"
        /\ (sumOutcome[l].kind \in FailureKinds =>
              /\ sumState[l] = "fulfilled"
              /\ sumValue[l] =
                   "AI service is currently unavailable. Please try again later.")

\* C4 witness: the three calls failed in the three different ways and each
\* settled with a value.
C4_Witness ==
    /\ sumOutcome["short"].kind = "network"
    /\ sumOutcome["medium"].kind = "quota"
    /\ sumOutcome["long"].kind = "malformed"
    /\ AllThreeFulfilled

\* C5: in every success response the summaries mapping has exactly the keys
\* short, medium and long, each bound to a string (a summary of the service
\* or the fallback string), never to an undefined value.
C5_SummariesHaveExactlyThreeKeys ==
    \A i \in DOMAIN responses :
        responses[i].status = 200 =>
            /\ DOMAIN responses[i].body.summaries = {"short", "medium", "long"}
            /\ \A l \in DOMAIN responses[i].body.summaries :
                  /\ responses[i].body.summaries[l] # Undefined
                  /\ responses[i].body.summaries[l] \in
                        ServiceTexts \cup {FallbackSummary}

\* C5 witness: a success response that mixes a real summary with fallbacks.
C5_Witness ==
    /\ Len(responses) = 1
    /\ responses[1].status = 200
    /\ responses[1].body.summaries["short"] \in ServiceTexts
    /\ responses[1].body.summaries["long"] = FallbackSummary

\* C6: within one request the handler performs the delete operation on the
\* stored file's path at most once (stated for the ordinary uploads).
C6_DeleteAtMostOnce == OrdinaryUpload => unlinkCalls <= 1

\* C7: cleanup is idempotent: when the stored file is already absent (also
\* when it went away between the existence check and the delete) the delete
\* does not raise, and the request ends as it would have with the file
\* present (stated for the ordinary uploads).
C7_CleanupToleratesAbsentFile ==
    OrdinaryUpload =>
        /\ \A i \in DOMAIN cleanupLog : cleanupLog[i] # ENOENT
        /\ (Terminal /\ removedBy = "external" /\ AllThreeFulfilled) =>
              (Len(responses) = 1 /\ responses[1].status = 200)

\* C8: a failing delete never masks the outcome: on the failure path the
\* response still carries the original error, on the success path the
\* request is not answered with a failure carrying the deletion error, and a
\* response is emitted in both cases (stated for the ordinary uploads).
C8_CleanupFailureNeverMasksOutcome ==
    (OrdinaryUpload /\ Terminal /\ cleanupLog # << >>) =>
        /\ Len(responses) = 1
        /\ IF AllThreeFulfilled
           THEN responses[1].status = 200
           ELSE responses[1] =
                  [status |-> 500,
                   body |-> [error |-> "Failed to process document: "
                                        \o ExtractionCause(extractor)]]

\* C9: a part is handed to the handler only if its declared media type is
\* application/pdf, image/jpeg or image/png and its size is at most
\* 10 * 1024 * 1024; every other part is answered with an error, runs no
\* extraction or summarization and leaves no stored file behind.
C9_IntakeAcceptsOnlyDeclaredTypesAndSizes ==
    LET allowed == /\ upload.mimetype \in {DeclaredPDF, DeclaredJPEG, DeclaredPNG}
                   /\ upload.size <= 10 * 1024 * 1024
    IN  /\ reqFile => allowed
        /\ (upload.present /\ ~allowed) =>
              /\ extractor = "none"
              /\ calls = << >>
              /\ (responses # << >> =>
                    ("error" \in DOMAIN responses[1].body /\ ~fsExists))

\* The names whose lower-cased extension is exactly .pdf, .jpg, .jpeg or .png.
PlainlyNamed ==
    toLowerCase(extname(upload.originalname)) \in
        { <<".","p","d","f">>, <<".","j","p","g">>,
          <<".","j","p","e","g">>, <<".","p","n","g">> }

\* C10 as stated: for a file accepted by intake, the PDF extractor runs iff
\* the declared type is PDF and the image extractor runs iff the declared
\* type is JPEG or PNG, whatever the file's name (stated for the files whose
\* declared type is one of the three and whose name has one of the four
\* extensions).
C10_ExtractorChosenByDeclaredType ==
    (/\ reqFile
     /\ pc # "handler"
     /\ upload.mimetype \in {DeclaredPDF, DeclaredJPEG, DeclaredPNG}
     /\ PlainlyNamed) =>
        /\ extractor = "pdf" <=> upload.mimetype = DeclaredPDF
        /\ extractor = "image" <=> upload.mimetype \in {DeclaredJPEG, DeclaredPNG}

\* C10 amended: for every accepted file that reaches the handler, the
\* extractor is chosen by the lower-cased extension of the original file
\* name: the PDF extractor runs iff it is .pdf and the image extractor runs
\* iff it is .jpg, .jpeg or .png, whatever the declared media type is.
C10_ExtractorChosenByExtension ==
    (reqFile /\ pc # "handler") =>
        /\ extractor = "pdf" <=>
              toLowerCase(extname(upload.originalname)) = <<".","p","d","f">>
        /\ extractor = "image" <=>
              toLowerCase(extname(upload.originalname)) \in
                 { <<".","j","p","g">>, <<".","j","p","e","g">>,
                   <<".","p","n","g">> }

\* C10 witness: the PDF extractor has run on a file declared image/png.
C10_Witness ==
    /\ extractor = "pdf"
    /\ upload.mimetype = DeclaredPNG
    /\ pc = "extracting"

\* C11: the handler's 'Unsupported file type' branch is never taken for a
\* file the intake filter accepted (stated for the files declared
\* application/pdf).
C11_UnsupportedBranchUnreachable ==
    (reqFile /\ upload.mimetype = DeclaredPDF) =>
        \A i \in DOMAIN responses :
            responses[i].body # [error |-> "Unsupported file type"]

\* C12: in every success response originalText is the extracted text itself
\* when that has at most 1000 characters, and its first 1000 characters
\* followed by the ellipsis marker when it has more.
C12_TruncationLaw ==
    \A i \in DOMAIN responses :
        responses[i].status = 200 =>
            responses[i].body.originalText =
                IF Len(extractedText) <= 1000
                THEN extractedText
                ELSE SubSeq(extractedText, 1, 1000) \o <<".", ".", ".">>

\* C12 witness: a success response for a text of exactly 1000 characters.
C12_Witness ==
    /\ Len(responses) = 1
    /\ responses[1].status = 200
    /\ Len(extractedText) = 1000
    /\ responses[1].body.originalText = extractedText

\* C13 as stated: in every success response originalText, marker included,
\* has at most 1001 characters.
C13_PreviewAtMost1001 ==
    \A i \in DOMAIN responses :
        responses[i].status = 200 =>
            Len(responses[i].body.originalText) <= 1001

\* C13 amended: in every success response originalText, marker included, has
\* at most 1003 characters (1000 of the text and the three of '...').
C13_PreviewAtMost1003 ==
    \A i \in DOMAIN responses :
        responses[i].status = 200 =>
            Len(responses[i].body.originalText) <= 1003

\* C13 witness: a success response whose originalText has 1003 characters.
C13_Witness ==
    /\ Len(responses) = 1
    /\ responses[1].status = 200
    /\ Len(extractedText) > 1000
    /\ Len(responses[1].body.originalText) = 1003

\* C14: when extraction returns empty or whitespace-only text the request is
\* answered with a failure and no summarization call is issued; every
\* summarization call carries a text that is non-empty after trimming.
C14_BlankTextNeverSummarized ==
    /\ \A i \in DOMAIN calls :
          \E j \in DOMAIN calls[i].text : calls[i].text[j] \notin {" ", "\n", "\t"}
    /\ (/\ extractState = "fulfilled"
        /\ \A j \in DOMAIN extractedText : extractedText[j] \in {" ", "\n", "\t"}) =>
          /\ calls = << >>
          /\ \A l \in LengthSet : sumState[l] = "idle"
          /\ Len(responses) = 1
          /\ responses[1].status = 400
          /\ DOMAIN responses[1].body = {"error"}

\* C14 witness: OCR returned whitespace only and the request was answered.
C14_Witness ==
    /\ extractState = "fulfilled"
    /\ extractor = "image"
    /\ extractedText = <<" ", "\n">>
    /\ responses # << >>

\* C15 (earlier revision, SpecV1): the failure of a summarization call never
\* turns an otherwise successful request into a failure, and the summaries
\* of the calls that succeeded are delivered (stated for the ordinary
\* uploads and the runs in which no delete failed and nobody else removed
\* the file).
C15_SingleFailureDoesNotAbortV1 ==
    (/\ OrdinaryUpload
     /\ Terminal
     /\ calls # << >>
     /\ cleanupLog = << >>
     /\ removedBy # "external") =>
        /\ Len(responses) = 1
        /\ responses[1].status = 200
        /\ \A l \in LengthSet :
              sumOutcome[l].kind = "ok" =>
                 responses[1].body.summaries[l] = sumOutcome[l].text

\* C16 (SpecConc): two concurrent requests are independent: the file a
\* request stored is read and deleted only by that request, nobody else is
\* served it, and every request's extractor reads its own file.
C16_RequestsIndependent ==
    conc.active =>
        /\ conc.served = {}
        /\ \A r \in Requests : conc.req[r].read \in {"none", r}
        /\ \A d \in conc.deleted : d[1] = d[2]
        /\ \A r \in Requests : conc.req[r].response # "failure"

\* C17: no summarization call of a request starts before its extractor call
\* has completed successfully, and none starts when the extractor failed.
C17_ExtractionPrecedesSummarization ==
    /\ (calls # << >> \/ \E l \in LengthSet : sumState[l] # "idle") =>
          extractState = "fulfilled"
    /\ extractState \in {"idle", "pending", "rejected"} =>
          /\ calls = << >>
          /\ \A l \in LengthSet : sumState[l] = "idle" /\ sumValue[l] = Undefined

\* C17 witness: extraction has returned and a summarization call is pending.
C17_Witness ==
    /\ extractState = "fulfilled"
    /\ pc = "summarizing"
    /\ sumState["short"] = "pending"
    /\ Len(calls) = 3

\* C18: per request the generative service is invoked at most three times:
\* once for short, once for medium and once for long, in that order, as soon
\* as the summarization region is entered, and never again afterwards, also
\* not after a call failed.
C18_ThreeServiceCallsNoRetry ==
    /\ Len(calls) \in {0, 3}
    /\ (\E l \in LengthSet : sumState[l] # "idle") <=> Len(calls) = 3
    /\ Len(calls) = 3 =>
          /\ calls[1].template = "Summarize in 2-3 sentences:"
          /\ calls[2].template = "Summarize in 1-2 paragraphs:"
          /\ calls[3].template = "Summarize in 3-4 paragraphs:"
          /\ \A i \in 1..3 : calls[i].text = extractedText

\* C18 witness: the request is over, two of its calls failed, and exactly
\* three calls were issued.
C18_Witness ==
    /\ Terminal
    /\ sumOutcome["short"].kind = "quota"
    /\ sumOutcome["medium"].kind = "network"
    /\ sumOutcome["long"].kind = "ok"
    /\ Len(calls) = 3

\* The order of the stages of one request.
StageRank(p) ==
    CASE p = "received"     -> 0
      [] p = "storing"      -> 1
      [] p = "handler"      -> 2
      [] p = "extracting"   -> 3
      [] p = "summarizing"  -> 4
      [] p = "cleanup"      -> 5
      [] p = "catch"        -> 6
      [] p = "catchCleanup" -> 7
      [] p = "rejected"     -> 8
      [] p = "errorHandler" -> 9
      [] OTHER              -> 10

\* C19: a request is one linear traversal: at most one extractor is invoked
\* and at most once, its result feeds at most one fan-out of three calls, and
\* the request never returns to a stage it has left.
C19_SingleLinearTraversal ==
    /\ [](/\ Len(extractLog) <= 1
          /\ Len(calls) <= 3
          /\ (extractLog # << >> => extractLog[1] = extractor))
    /\ [][/\ pc' # pc => StageRank(pc') > StageRank(pc)
          /\ Len(extractLog') >= Len(extractLog)
          /\ (extractState \in {"fulfilled", "rejected"} =>
                extractState' = extractState)
          /\ \A l \in LengthSet :
                sumState[l] \in {"fulfilled", "rejected"} =>
                   sumState'[l] = sumState[l]]_vars

\* C19 witness: a finished request with one extractor invocation and one
\* fan-out.
C19_Witness ==
    /\ pc = "done"
    /\ extractLog = <<"pdf">>
    /\ Len(calls) = 3
    /\ AllThreeFulfilled

\* The messages a failure of the given extractor can put into the response.
StageFailureMessages(which) ==
    { "Failed to process document: " \o c :
        c \in {ExtractionCause(which), ENOENT} }

\* C20: when the PDF or OCR extractor fails the request is answered with a
\* failure whose error tells the failing stage apart from the other one and
\* carries the cause, no summarization call is issued, and the stored file is
\* gone when the response is emitted (stated for the ordinary uploads and
\* the runs in which no delete failed).
C20_ExtractionFailureIdentifiesStage ==
    (/\ OrdinaryUpload
     /\ extractState = "rejected"
     /\ Terminal
     /\ cleanupLog = << >>) =>
        /\ Len(responses) = 1
        /\ responses[1].status = 500
        /\ responses[1].body.error \notin
              StageFailureMessages(IF extractor = "pdf" THEN "image" ELSE "pdf")
        /\ calls = << >>
        /\ ~fsExists

\* The keys of a success record and of a failure record.
SuccessKeys == {"success", "originalText", "summaries", "fileName", "fileSize"}
FailureKeys == {"error"}

\* C21: every response is of exactly one of two shapes: a success record
\* (status 200) with the success flag, originalText, summaries, fileName
\* equal to the uploaded file's original name and fileSize equal to its byte
\* size; or a failure record (status 400 or 500) that holds a non-empty
\* error string and nothing else, in particular no summaries.
C21_ResponseIsSuccessOrFailureRecord ==
    \A i \in DOMAIN responses :
        LET r == responses[i] IN
        IF r.status = 200
        THEN /\ DOMAIN r.body = SuccessKeys
             /\ r.body.success = TRUE
             /\ r.body.fileName = upload.originalname
             /\ r.body.fileSize = upload.size
             /\ DOMAIN r.body.summaries = LengthSet
        ELSE /\ r.status \in {400, 500}
             /\ DOMAIN r.body = FailureKeys
             /\ Len(r.body.error) > 0

\* C21 witness: a success response for a file of exactly the size limit whose
\* name is not in lower case.
C21_Witness ==
    /\ Len(responses) = 1
    /\ responses[1].status = 200
    /\ upload.originalname = <<"a", ".", "P", "D", "F">>
    /\ responses[1].body.fileSize = fileSizeLimit

\* The runs in which every continuation that can run does run: the event
\* loop resumes every settled await, and every extractor and summarization
\* call settles.
Fairness == WF_vars(Next)

SpecLive == Init /\ [][Next]_vars /\ Fairness

\* C22: every request receives exactly one response: a response is
\* eventually emitted on every path, also when a file deletion fails, and
\* never a second one (stated for the ordinary uploads).
C22_ExactlyOneResponse ==
    /\ OrdinaryUpload => <>(Len(responses) = 1)
    /\ [](Len(responses) <= 1)

\* C23: a request that carries no file is answered with the 'No file
\* uploaded' failure, and causes no extraction call, no summarization call
\* and no file deletion.
C23_NoFileNoEffects ==
    ~upload.present =>
        /\ extractLog = << >> /\ extractState = "idle" /\ extractor = "none"
        /\ calls = << >>
        /\ \A l \in LengthSet : sumState[l] = "idle"
        /\ unlinkCalls = 0 /\ removedBy = "nobody" /\ ~fsExists
        /\ (Terminal =>
              responses = << [status |-> 400,
                              body |-> [error |-> "No file uploaded"]] >>)
        /\ (~Terminal => responses = << >>)

\* C23 witness: the request without a file has been answered.
C23_Witness ==
    /\ ~upload.present
    /\ pc = "done"
    /\ Len(responses) = 1

\* The instruction each of the three calls carries, by position.
InstructionOfCall ==
    << "Summarize in 2-3 sentences:",
       "Summarize in 1-2 paragraphs:",
       "Summarize in 3-4 paragraphs:" >>

\* The error messages of the failure responses, none of which is built from
\* the request body.
BodyFreeErrors ==
    { "No file uploaded", "Unsupported file type",
      "No text could be extracted from the document",
      "File too large. Max size is 10MB.",
      "Only PDF and image files are allowed", ENOENT, EPERM }
    \cup { "Failed to process document: " \o c :
              c \in {ExtractionCause("pdf"), ExtractionCause("image"),
                      ENOENT, EPERM} }

\* C24: the summaryLength field has no effect: the summarization calls and
\* the response are determined by the file, the extracted text and what the
\* service and the file system did, so two requests that differ only in
\* summaryLength issue the same three calls and get the same response.
C24_SummaryLengthHasNoEffect ==
    /\ calls \in
          { << >>,
            [i \in 1..3 |-> [template |-> InstructionOfCall[i],
                             text |-> extractedText]] }
    /\ \A i \in DOMAIN responses :
          IF responses[i].status = 200
          THEN responses[i].body =
                 [ success      |-> TRUE,
                   originalText |-> originalTextOf(extractedText),
                   summaries    |-> [l \in LengthSet |-> ExpectedSummary(l)],
                   fileName     |-> upload.originalname,
                   fileSize     |-> upload.size ]
          ELSE responses[i].body.error \in BodyFreeErrors

\* C24 witness: a request that asks for the short summary has issued the
\* three calls and got all three summaries.
C24_Witness ==
    /\ reqBody.summaryLength = "short"
    /\ summaryLength = "short"
    /\ Len(calls) = 3
    /\ Len(responses) = 1
    /\ responses[1].status = 200
    /\ responses[1].body.summaries["long"] \in ServiceTexts

\* C25: while an upload is in flight (isProcessing) no user action changes
\* the selected file or starts a second upload, so a result that is shown
\* belongs to the file still selected.
C25_SelectionFrozenWhileProcessing ==
    /\ [][ui.isProcessing =>
            /\ ui'.file = ui.file
            /\ ui'.sent \in {ui.sent, NoFile}]_vars
    /\ [](ui.result # NoResult =>
            /\ ui.result.fileName = ui.file.name
            /\ ui.result.fileSize = ui.file.size)

\* C26: every upload attempt ends with isProcessing false, and when it ends
\* exactly one of result and error is set: after a successful response the
\* result is set and the error is empty; after an error response, an
\* unparsable response or a network failure the error is non-empty and the
\* result is what it was.
C26_AttemptEndsWithResultOrError ==
    /\ ui.isProcessing ~> ~ui.isProcessing
    /\ [][(ui.sent # NoFile /\ ui'.sent = NoFile) =>
            /\ ~ui'.isProcessing
            /\ \/ ui'.result # NoResult /\ ui'.error = ""
               \/ /\ ui'.result = ui.result
                  /\ ui'.result = NoResult
                  /\ ui'.error # ""]_vars

====
